---- MODULE Spec2Model ----
(***************************************************************************)
(* Community forum of the wellness app: the moderation pipeline, the       *)
(* comment submission with its denormalised comment_count, and the comment *)
(* tree builder of src/src/pages/Community.tsx, over the posts / comments  *)
(* tables and row-level-security policies of                              *)
(* src/supabase/migrations/databaseRunOnSupabase.sql.                      *)
(*                                                                         *)
(* One browser session (one Community component instance) talks to the     *)
(* database.  Every await of the handlers is a step boundary: the code     *)
(* between two awaits is one action.                                       *)
(***************************************************************************)
EXTENDS Integers, Sequences, FiniteSets, TLC

\* ------------------------------------------------------------------ bounds
MaxPosts == 2            \* rows of table posts
MaxComments == 2         \* rows of table comments a commenting session reaches
MaxTreeComments == 3     \* rows of table comments a browsing session starts from

\* --------------------------------------------------------------- constants
NoUser == "anon"            \* useAuth() gave no user
Owner == "u1"               \* the user of this session, when signed in
Other == "u2"               \* another user, owner of the pre-existing post
NoPost == 0                 \* selectedPost === null
NoComment == 0              \* parent_comment_id / replyTo === null

Categories == {"urgent_risk", "harmful_instruction", "support_needed", "safe"}

\* Text of the inputs: sequences of characters, " " is white space.
Texts == {<<>>, <<" ">>, <<"a">>, <<"b">>}
\* what the commenting session types: nothing, or a text
CommentTexts == {<<>>, <<"a">>}

RECURSIVE TrimStart(_)
TrimStart(s) ==
    IF s = <<>> THEN <<>>
    ELSE IF Head(s) = " " THEN TrimStart(Tail(s)) ELSE s

RECURSIVE TrimEnd(_)
TrimEnd(s) ==
    IF s = <<>> THEN <<>>
    ELSE IF s[Len(s)] = " " THEN TrimEnd(SubSeq(s, 1, Len(s) - 1)) ELSE s

\* String.prototype.trim
Trim(s) == TrimEnd(TrimStart(s))

\* ------------------------------------------------- the moderation verdict
\* The text the generative service answers with is a sequence of tokens:
\* "{" and "}" are the braces, "p" is a character of prose, every other
\* token is the body of a JSON object.
ValidBodies == Categories \cup {"other", "nocat"}
Tokens == ValidBodies \cup {"{", "}", "p", "junk"}

\* String.prototype.indexOf / lastIndexOf, 0-based, -1 when absent
IndexOf(s, t) ==
    IF \E i \in 1..Len(s) : s[i] = t
    THEN (CHOOSE i \in 1..Len(s) : s[i] = t /\ \A j \in 1..(i - 1) : s[j] # t) - 1
    ELSE -1

LastIndexOf(s, t) ==
    IF \E i \in 1..Len(s) : s[i] = t
    THEN (CHOOSE i \in 1..Len(s) : s[i] = t /\ \A j \in (i + 1)..Len(s) : s[j] # t) - 1
    ELSE -1

Clamp(n, len) == IF n < 0 THEN 0 ELSE IF n > len THEN len ELSE n

\* String.prototype.substring(start, end): clamps both, swaps when start > end
Substring(s, start, end) ==
    LET a == Clamp(start, Len(s))
        b == Clamp(end, Len(s))
        lo == IF a <= b THEN a ELSE b
        hi == IF a <= b THEN b ELSE a
    IN SubSeq(s, lo + 1, hi)

\* JSON.parse of the extracted text: an object with one body, or {}
JsonParses(js) ==
    \/ js = <<"{", "}">>
    \/ Len(js) = 3 /\ js[1] = "{" /\ js[3] = "}" /\ js[2] \in ValidBodies

\* analysis.category of the parsed object ("undefined" when the field is absent)
ParsedCategory(js) ==
    IF Len(js) = 3 /\ js[2] # "nocat" THEN js[2] ELSE "undefined"

NoAnalysis == [kind |-> "none", category |-> "none"]
\* a catch that fails closed
FailClosed == [category |-> "urgent_risk", analysis |-> [kind |-> "error", category |-> "none"]]
SafeNoKey == [category |-> "safe", analysis |-> [kind |-> "empty", category |-> "none"]]
SafeFailed == [category |-> "safe", analysis |-> [kind |-> "error", category |-> "none"]]

\* The service either throws (ok = FALSE) or answers with a text.
Responses ==
    {<<"{", b, "}">> : b \in ValidBodies \cup {"junk"}}
      \cup {<<"p", "{", b, "}", "p">> : b \in Categories}
      \cup {<<"{", b, "}", "p", "}">> : b \in Categories}
      \cup {<<>>, <<"p">>, <<"{", "}">>, <<"}", "p", "{">>}

ServiceOutcomes == {[ok |-> FALSE, text |-> <<>>]} \cup {[ok |-> TRUE, text |-> t] : t \in Responses}

\* moderateContent (try / catch part), given the outcome of generateContent
ModerateResponse(out) ==
    IF ~out.ok THEN SafeFailed
    ELSE LET js == Substring(out.text, IndexOf(out.text, "{"), LastIndexOf(out.text, "}") + 1)
         IN IF JsonParses(js)
            THEN [category |-> ParsedCategory(js),
                  analysis |-> [kind |-> "parsed", category |-> ParsedCategory(js)]]
            ELSE SafeFailed

\* moderateContent
moderateContent(key, out) == IF ~key THEN SafeNoKey ELSE ModerateResponse(out)

\* responseText of line 56, when generateContent was called and answered
ResponseText(key, out) == IF key /\ out.ok THEN out.text ELSE <<>>

\* ------------------------------------------------- the supportive message
\* Texts of messages are sequences of phrases.
OpeningClause == <<"It sounds like you're going through a lot", " right now.">>
KindToYourself == " Please remember to be kind to yourself."
\* line 72: the string returned when GEMINI_API_KEY is not set
NoKeyMessage == <<"It sounds like you're going through a lot", ".", KindToYourself>>
\* line 79: the string returned by the catch
CatchMessage == OpeningClause \o <<KindToYourself>>

\* what the service may generate: a text that follows the prompt or one that does not
GeneratedMessages == {OpeningClause \o <<" That is a heavy thing to carry.">>,
                      <<"I am sorry you feel this way.">>}
SupportOutcomes ==
    {[ok |-> FALSE, text |-> <<>>]} \cup {[ok |-> TRUE, text |-> t] : t \in GeneratedMessages}

\* s.startsWith(p)
StartsWith(s, p) == Len(s) >= Len(p) /\ SubSeq(s, 1, Len(p)) = p

NoMessage == [text |-> <<>>, fallback |-> FALSE]

\* generateSupportiveMessage, lines 71-81: the text returned, and whether it
\* is one of the two hardcoded strings
generateSupportiveMessage(key, out) ==
    IF ~key THEN [text |-> NoKeyMessage, fallback |-> TRUE]
    ELSE IF out.ok THEN [text |-> out.text, fallback |-> FALSE]
    ELSE [text |-> CatchMessage, fallback |-> TRUE]

\* ------------------------------------------------------------------ state
VARIABLES
    dbPosts,          \* table posts: row i has id i, in created_at order
    dbComments,       \* table comments: row i has id i, in created_at order
    user,             \* useAuth().user of this session
    apiKey,           \* GEMINI_API_KEY is set
    posts,            \* useState posts: sequence of [id, comment_count]
    selectedPost,     \* useState selectedPost: [id, comment_count], id 0 = null
    comments,         \* useState comments: the tree, [top, replies]
    loaded,           \* the flat list (data) the tree in comments was built from
    isSubmitting,
    showCrisisModal,
    replyTo,          \* id of the comment replied to, 0 = null
    commentContent,   \* commentFormData.content
    postContent,      \* postFormData.content
    showCreateForm,
    notice,           \* the toast raised by the last step ("none": no toast)
    verdict,          \* the ModerationResult returned in the last step, if any
    done,             \* the submission that finished in the last step, if any
    inserted,         \* content and ai_analysis of the row inserted in the last step, if
                      \* any, and whether 'Post Anyway' was pressed for it
    pc,               \* where the submission handler of this form is suspended
    sub,              \* what the suspended handler closed over and computed
    postFilter,       \* useState postFilter: "all" or "yours"
    pendingPosts,     \* loadPosts calls still in flight (the filter each closed over)
    pendingComments   \* loadComments calls of the effect still in flight (post ids)

vars == <<dbPosts, dbComments, user, apiKey, posts, selectedPost, comments, loaded,
          isSubmitting, showCrisisModal, replyTo, commentContent, postContent,
          showCreateForm, notice, verdict, done, inserted, pc, sub, postFilter,
          pendingPosts,
          pendingComments>>

dbVars == <<dbPosts, dbComments>>
envVars == <<user, apiKey>>
formVars == <<replyTo, commentContent, postContent, showCreateForm>>
viewVars == <<posts, selectedPost, comments, loaded, postFilter>>
loadVars == <<pendingPosts, pendingComments>>

\* ------------------------------------------------------------ data helpers
NoSelected == [id |-> NoPost, comment_count |-> 0]
NoVerdict == [kind |-> "none", category |-> "none", analysis |-> NoAnalysis, text |-> <<>>]
NoneDone == [kind |-> "none", post |-> NoPost, failed |-> FALSE]
NoInsert == [table |-> "none", content |-> <<>>, ai_analysis |-> NoAnalysis,
             confirmed |-> FALSE]
EmptyTree == [top |-> <<>>, replies |-> [i \in {} |-> <<>>]]

IdleSub == [post |-> NoPost, content |-> <<>>, replyTo |-> NoComment, posts |-> <<>>,
            category |-> "none", analysis |-> NoAnalysis, confirmed |-> FALSE,
            count |-> 0, failed |-> FALSE, message |-> NoMessage, evaluated |-> <<>>]

Range(s) == {s[i] : i \in 1..Len(s)}

\* select('*').eq('post_id', postId).order('created_at', ascending):
\* the rows of the post, oldest first, each with its id
RECURSIVE CommentRows(_, _, _)
CommentRows(tbl, postId, i) ==
    IF i > Len(tbl) THEN <<>>
    ELSE IF tbl[i].post_id = postId
         THEN <<[id |-> i, post_id |-> tbl[i].post_id,
                 parent_comment_id |-> tbl[i].parent_comment_id]>> \o CommentRows(tbl, postId, i + 1)
         ELSE CommentRows(tbl, postId, i + 1)

SelectComments(tbl, postId) == CommentRows(tbl, postId, 1)

\* select('*') [.eq('user_id', user.id)] .order('created_at', descending)
RECURSIVE PostRows(_, _, _)
PostRows(tbl, uid, i) ==
    IF i < 1 THEN <<>>
    ELSE IF uid = NoUser \/ tbl[i].user_id = uid
         THEN <<[id |-> i, comment_count |-> tbl[i].comment_count]>> \o PostRows(tbl, uid, i - 1)
         ELSE PostRows(tbl, uid, i - 1)

SelectPosts(tbl, filter, u) ==
    PostRows(tbl, IF filter = "yours" /\ u # NoUser THEN u ELSE NoUser, Len(tbl))

\* Thread with a comment whose parent is not in the list dropped
RECURSIVE ThreadDropOrphans(_, _, _)
ThreadDropOrphans(data, i, tree) ==
    IF i > Len(data) THEN tree
    ELSE LET c == data[i]
         IN IF c.parent_comment_id # NoComment
            THEN IF c.parent_comment_id \in DOMAIN tree.replies
                 THEN ThreadDropOrphans(data, i + 1,
                        [tree EXCEPT !.replies[c.parent_comment_id] = Append(@, c.id)])
                 ELSE ThreadDropOrphans(data, i + 1, tree)
            ELSE ThreadDropOrphans(data, i + 1, [tree EXCEPT !.top = Append(@, c.id)])

\* Thread with every comment pushed to the top level
RECURSIVE ThreadFlat(_, _, _)
ThreadFlat(data, i, tree) ==
    IF i > Len(data) THEN tree
    ELSE ThreadFlat(data, i + 1, [tree EXCEPT !.top = Append(@, data[i].id)])

\* loadComments, lines 126-134: the map from id to node, then one pass that
\* pushes each node to its parent's replies or to the top level
RECURSIVE Thread(_, _, _)
Thread(data, i, tree) ==
    IF i > Len(data) THEN tree
    ELSE LET c == data[i]
         IN IF c.parent_comment_id # NoComment /\ c.parent_comment_id \in DOMAIN tree.replies
            THEN Thread(data, i + 1,
                        [tree EXCEPT !.replies[c.parent_comment_id] = Append(@, c.id)])
            ELSE Thread(data, i + 1, [tree EXCEPT !.top = Append(@, c.id)])

BuildTree(data) ==
    Thread(data, 1, [top |-> <<>>, replies |-> [k \in {data[i].id : i \in 1..Len(data)} |-> <<>>]])

\* the nodes under (and including) a node of the tree, following replies
RECURSIVE Subtree(_, _)
Subtree(tree, id) ==
    {id} \cup UNION {Subtree(tree, r) : r \in Range(tree.replies[id])}

\* the comments the detail view renders (CommentComponent recursion)
Rendered(tree) == UNION {Subtree(tree, t) : t \in Range(tree.top)}

\* number of nodes of the tree, counted recursively from the top level
RECURSIVE CountSeq(_, _)
CountSeq(tree, s) ==
    IF s = <<>> THEN 0
    ELSE 1 + CountSeq(tree, tree.replies[Head(s)]) + CountSeq(tree, Tail(s))

NodeCount(tree) == CountSeq(tree, tree.top)

\* totalCommentCount, line 291: comments.reduce((acc, c) => acc + 1 + c.replies.length, 0)
RECURSIVE SumTopAndReplies(_, _)
SumTopAndReplies(tree, s) ==
    IF s = <<>> THEN 0
    ELSE 1 + Len(tree.replies[Head(s)]) + SumTopAndReplies(tree, Tail(s))

totalCommentCount(tree) == SumTopAndReplies(tree, tree.top)

\* number of rows of table comments with the given post_id
RowCount(tbl, postId) == Cardinality({i \in 1..Len(tbl) : tbl[i].post_id = postId})


\* ------------------------------------------------------------------- Init
\* Rows keep the columns the code reads back.  content and ai_analysis are
\* written once, by the insert, and never read or updated by this code: the
\* variable inserted shows them in the step that writes them.
OtherPost == [user_id |-> Other, comment_count |-> 0]
OwnPost == [user_id |-> Owner, comment_count |-> 0]

\* The page has just mounted: nothing is loaded, no form is filled in, and the
\* effect of line 145 has called loadPosts.
Mounted ==
    /\ user \in {Owner, NoUser}
    /\ apiKey \in BOOLEAN
    /\ posts = <<>>
    /\ selectedPost = NoSelected
    /\ comments = EmptyTree
    /\ loaded = <<>>
    /\ isSubmitting = FALSE
    /\ showCrisisModal = FALSE
    /\ replyTo = NoComment
    /\ commentContent = <<>>
    /\ postContent = <<>>
    /\ showCreateForm = FALSE
    /\ notice = "none"
    /\ verdict = NoVerdict
    /\ done = NoneDone
    /\ inserted = NoInsert
    /\ pc = "idle"
    /\ sub = IdleSub
    /\ postFilter = "all"
    /\ pendingPosts = {"all"}
    /\ pendingComments = {}

\* The database holds a post of another user and a post of the session's
\* user, both without comments.
Init ==
    /\ dbPosts = <<OtherPost, OwnPost>>
    /\ dbComments = <<>>
    /\ Mounted

\* The tables a browsing session can find: every comment belongs to one of the
\* two posts and its parent, if any, is a comment inserted before it (the
\* foreign key comments_parent_comment_id_fkey; it does not look at post_id).
CommentTables ==
    UNION {{t \in [1..n -> [post_id : 1..2, parent_comment_id : 0..MaxTreeComments]] :
              \A i \in 1..n : t[i].parent_comment_id < i} : n \in 0..MaxTreeComments}

InitTree ==
    /\ user = Owner /\ apiKey = TRUE
    /\ dbComments \in CommentTables
    /\ dbPosts = <<[OtherPost EXCEPT !.comment_count = RowCount(dbComments, 1)],
                   [OwnPost EXCEPT !.comment_count = RowCount(dbComments, 2)]>>
    /\ Mounted

\* The database holds one post of another user.
InitPost ==
    /\ dbPosts = <<OtherPost>>
    /\ dbComments = <<>>
    /\ Mounted

\* a step that raises no toast, returns no verdict and finishes no submission
Quiet == notice' = "none" /\ verdict' = NoVerdict /\ done' = NoneDone /\ inserted' = NoInsert

\* ------------------------------------------------------------ view actions
Detail == selectedPost.id # NoPost
\* the crisis modal is a full-screen overlay above the page
Interactive == ~showCrisisModal

\* textarea of the comment form, line 446
TypeComment(t) ==
    /\ Detail /\ Interactive
    /\ t # commentContent
    /\ commentContent' = t
    /\ Quiet
    /\ UNCHANGED <<dbVars, envVars, viewVars, loadVars, isSubmitting, showCrisisModal,
                   replyTo, postContent, showCreateForm, pc, sub>>

\* textarea of the post form, line 549
TypePost(t) ==
    /\ ~Detail /\ Interactive /\ showCreateForm
    /\ t # postContent
    /\ postContent' = t
    /\ Quiet
    /\ UNCHANGED <<dbVars, envVars, viewVars, loadVars, isSubmitting, showCrisisModal,
                   replyTo, commentContent, showCreateForm, pc, sub>>

\* the buttons of lines 518, 583 and 766
ToggleCreateForm ==
    /\ ~Detail /\ Interactive
    /\ showCreateForm' = ~showCreateForm
    /\ Quiet
    /\ UNCHANGED <<dbVars, envVars, viewVars, loadVars, isSubmitting, showCrisisModal,
                   replyTo, commentContent, postContent, pc, sub>>

\* post card onClick, line 659; the effect of line 145 then calls loadComments
SelectPost(i) ==
    /\ ~Detail /\ Interactive
    /\ i \in 1..Len(posts)
    /\ selectedPost' = posts[i]
    /\ pendingComments' = pendingComments \cup {posts[i].id}
    /\ Quiet
    /\ UNCHANGED <<dbVars, envVars, formVars, posts, comments, loaded, postFilter, pendingPosts,
                   isSubmitting, showCrisisModal, pc, sub>>

\* Back to Community, line 331; the effect of line 145 then calls loadPosts
BackToCommunity ==
    /\ Detail /\ Interactive
    /\ selectedPost' = NoSelected
    /\ pendingPosts' = pendingPosts \cup {postFilter}
    /\ Quiet
    /\ UNCHANGED <<dbVars, envVars, formVars, posts, comments, loaded, postFilter, pendingComments,
                   isSubmitting, showCrisisModal, pc, sub>>

\* filter buttons, lines 618-634 ('yours' is rendered only for a user)
SetPostFilter(f) ==
    /\ ~Detail /\ Interactive
    /\ f # postFilter
    /\ f = "yours" => user # NoUser
    /\ postFilter' = f
    /\ pendingPosts' = pendingPosts \cup {f}
    /\ Quiet
    /\ UNCHANGED <<dbVars, envVars, formVars, posts, selectedPost, comments, loaded, pendingComments,
                   isSubmitting, showCrisisModal, pc, sub>>

\* handleReplyClick given any comment id, rendered (so persisted) or not
handleReplyClickAnyId(c) ==
    /\ Detail /\ Interactive
    /\ user # NoUser
    /\ replyTo' = c
    /\ Quiet
    /\ UNCHANGED <<dbVars, envVars, viewVars, loadVars, isSubmitting, showCrisisModal,
                   commentContent, postContent, showCreateForm, pc, sub>>

\* handleReplyClick, on a rendered comment (Reply is rendered only for a user)
handleReplyClick(c) ==
    /\ Detail /\ Interactive
    /\ user # NoUser
    /\ c \in Rendered(comments)
    /\ replyTo' = c
    /\ Quiet
    /\ UNCHANGED <<dbVars, envVars, viewVars, loadVars, isSubmitting, showCrisisModal,
                   commentContent, postContent, showCreateForm, pc, sub>>

\* Cancel of the reply banner, line 434
CancelReply ==
    /\ Detail /\ Interactive
    /\ replyTo # NoComment
    /\ replyTo' = NoComment
    /\ Quiet
    /\ UNCHANGED <<dbVars, envVars, viewVars, loadVars, isSubmitting, showCrisisModal,
                   commentContent, postContent, showCreateForm, pc, sub>>

\* CrisisModal onClose, line 323
CloseCrisisModal ==
    /\ showCrisisModal
    /\ showCrisisModal' = FALSE
    /\ Quiet
    /\ UNCHANGED <<dbVars, envVars, formVars, viewVars, loadVars, isSubmitting, pc, sub>>

\* ------------------------------------------------------------------ loads
\* loadPosts resolves: the query answers or fails
LoadPostsDone(f, ok) ==
    /\ f \in pendingPosts
    /\ pendingPosts' = pendingPosts \ {f}
    /\ IF ok
       THEN posts' = SelectPosts(dbPosts, f, user) /\ notice' = "none"
       ELSE posts' = posts /\ notice' = "posts_load_failed"
    /\ verdict' = NoVerdict /\ done' = NoneDone /\ inserted' = NoInsert
    /\ UNCHANGED <<dbVars, envVars, formVars, selectedPost, comments, loaded, postFilter,
                   pendingComments, isSubmitting, showCrisisModal, pc, sub>>

\* loadComments: what it sets as comments and what it returns
loadComments(tbl, postId, ok, old) ==
    IF ok
    THEN [tree |-> BuildTree(SelectComments(tbl, postId)), data |-> SelectComments(tbl, postId)]
    ELSE [tree |-> old, data |-> <<>>]

\* a loadComments call of the effect resolves
LoadCommentsDone(p, ok) ==
    /\ p \in pendingComments
    /\ pendingComments' = pendingComments \ {p}
    /\ comments' = loadComments(dbComments, p, ok, comments).tree
    /\ loaded' = IF ok THEN SelectComments(dbComments, p) ELSE loaded
    /\ Quiet
    /\ UNCHANGED <<dbVars, envVars, formVars, posts, selectedPost, postFilter, pendingPosts,
                   isSubmitting, showCrisisModal, pc, sub>>


\* ------------------------------------------------------------ submissions
\* the end of a handler without the finally of lines 224-226
FinishWithoutFinally(kind, post, failed) ==
    /\ pc' = "idle"
    /\ sub' = IdleSub
    /\ done' = [kind |-> kind, post |-> post, failed |-> failed]
    /\ UNCHANGED isSubmitting

\* the end of a handler: setIsSubmitting(false), nothing left suspended
Finish(kind, post, failed) ==
    /\ isSubmitting' = FALSE
    /\ pc' = "idle"
    /\ sub' = IdleSub
    /\ done' = [kind |-> kind, post |-> post, failed |-> failed]

\* proceedWithPosting reading the input as it is when it runs, instead of the
\* content of the render that submitted
proceedWithCurrentInput(result, confirmed) ==
    /\ IF Trim(commentContent) = <<>> \/ sub.post = NoPost
       THEN /\ pc' = "idle" /\ sub' = IdleSub
            /\ notice' = "none" /\ done' = NoneDone
            /\ UNCHANGED isSubmitting
       ELSE IF user = NoUser
       THEN /\ notice' = "response_failed"
            /\ Finish("comment", sub.post, TRUE)
       ELSE /\ isSubmitting' = TRUE
            /\ pc' = "ins_comment"
            /\ sub' = [sub EXCEPT !.content = commentContent,
                                  !.category = result.category,
                                  !.analysis = result.analysis,
                                  !.confirmed = confirmed,
                                  !.message = NoMessage]
            /\ notice' = "none" /\ done' = NoneDone
    /\ UNCHANGED <<dbVars, envVars, formVars, viewVars, loadVars, showCrisisModal>>

\* proceedWithPosting up to its first await (lines 183-198), run by the
\* handler that closed over sub.content, sub.post and sub.replyTo
proceedWithPosting(result, confirmed) ==
    /\ IF Trim(sub.content) = <<>> \/ sub.post = NoPost
       THEN /\ pc' = "idle" /\ sub' = IdleSub
            /\ notice' = "none" /\ done' = NoneDone
            /\ UNCHANGED isSubmitting
       ELSE IF user = NoUser
       THEN /\ notice' = "response_failed"
            /\ Finish("comment", sub.post, TRUE)
       ELSE /\ isSubmitting' = TRUE
            /\ pc' = "ins_comment"
            /\ sub' = [sub EXCEPT !.category = result.category,
                                  !.analysis = result.analysis,
                                  !.confirmed = confirmed,
                                  !.message = NoMessage]
            /\ notice' = "none" /\ done' = NoneDone
    /\ UNCHANGED <<dbVars, envVars, formVars, viewVars, loadVars, showCrisisModal>>

\* UrgentRiskCase without setIsSubmitting(false)
UrgentRiskKeepsSubmitting(kind) ==
    /\ showCrisisModal' = TRUE
    /\ notice' = "none"
    /\ pc' = "idle"
    /\ sub' = IdleSub
    /\ done' = [kind |-> kind, post |-> sub.post, failed |-> FALSE]
    /\ UNCHANGED <<dbVars, envVars, formVars, viewVars, loadVars, isSubmitting>>

\* setShowCrisisModal(true); setIsSubmitting(false)   (lines 160-164, 236-239)
UrgentRiskCase(kind) ==
    /\ showCrisisModal' = TRUE
    /\ notice' = "none"
    /\ Finish(kind, sub.post, FALSE)
    /\ UNCHANGED <<dbVars, envVars, formVars, viewVars, loadVars>>

\* the case 'harmful_instruction' going on to post the comment
HarmfulInstructionPosted ==
    proceedWithPosting([category |-> "harmful_instruction", analysis |-> NoAnalysis], FALSE)

\* toast.error("Harmful or instructional comments ..."), lines 240-246
HarmfulInstructionCase ==
    /\ notice' = "harmful_rejected"
    /\ Finish("comment", sub.post, FALSE)
    /\ UNCHANGED <<dbVars, envVars, formVars, viewVars, loadVars, showCrisisModal>>

\* the case 'support_needed' re-enabling the form while the warning is awaited
SupportNeededReenabled(result) ==
    /\ pc' = "support_msg"
    /\ sub' = [sub EXCEPT !.category = result.category, !.analysis = result.analysis]
    /\ isSubmitting' = FALSE
    /\ notice' = "none" /\ done' = NoneDone
    /\ UNCHANGED <<dbVars, envVars, formVars, viewVars, loadVars, showCrisisModal>>

\* the case 'support_needed' posting at once, without the warning
SupportNeededPosted(result) == proceedWithPosting(result, FALSE)

\* case 'support_needed', line 248: await generateSupportiveMessage
SupportNeededCase(result) ==
    /\ pc' = "support_msg"
    /\ sub' = [sub EXCEPT !.category = result.category, !.analysis = result.analysis]
    /\ notice' = "none" /\ done' = NoneDone
    /\ UNCHANGED <<dbVars, envVars, formVars, viewVars, loadVars, showCrisisModal, isSubmitting>>

\* a default of the switch that leaves isSubmitting as it is
DefaultCaseStuck ==
    /\ notice' = "none"
    /\ FinishWithoutFinally("comment", sub.post, FALSE)
    /\ UNCHANGED <<dbVars, envVars, formVars, viewVars, loadVars, showCrisisModal>>

\* default of the switch, lines 270-271
DefaultCase ==
    /\ notice' = "none"
    /\ Finish("comment", sub.post, FALSE)
    /\ UNCHANGED <<dbVars, envVars, formVars, viewVars, loadVars, showCrisisModal>>

\* Send button, lines 459-462
SendEnabled == ~(Trim(commentContent) = <<>> \/ isSubmitting)

\* lines 231-233: setIsSubmitting(true); await moderateContent(...)
ResponseStarted ==
    /\ isSubmitting' = TRUE
    /\ pc' = "mod_comment"
    /\ sub' = [IdleSub EXCEPT !.post = selectedPost.id,
                              !.content = commentContent,
                              !.replyTo = replyTo,
                              !.evaluated = commentContent]
    /\ Quiet
    /\ UNCHANGED <<dbVars, envVars, formVars, viewVars, loadVars, showCrisisModal>>

\* handleCreateResponse without the guard of line 230
ResponseSubmittedUnguarded == ResponseStarted

\* the body of handleCreateResponse up to the await (lines 230-233)
ResponseSubmitted ==
    IF Trim(commentContent) = <<>> \/ selectedPost.id = NoPost
    THEN UNCHANGED vars
    ELSE ResponseStarted

\* handleCreateResponse, run by a click on the Send button
handleCreateResponse ==
    /\ Detail /\ Interactive /\ SendEnabled
    /\ pc = "idle"
    /\ Len(dbComments) < MaxComments
    /\ ResponseSubmitted

\* handleCreateResponse called whatever the state of the Send button
CallCreateResponse ==
    /\ Detail
    /\ pc = "idle"
    /\ Len(dbComments) < MaxComments
    /\ ResponseSubmitted

\* the switch of handleCreateResponse, lines 235-272
ResponseSwitch(result) ==
    CASE result.category = "urgent_risk" -> UrgentRiskCase("comment")
      [] result.category = "harmful_instruction" -> HarmfulInstructionCase
      [] result.category = "support_needed" -> SupportNeededCase(result)
      [] result.category = "safe" -> proceedWithPosting(result, FALSE)
      [] OTHER -> DefaultCase

\* moderateContent resolves in handleCreateResponse
CommentModerated(out) ==
    /\ pc = "mod_comment"
    /\ LET result == moderateContent(apiKey, out)
       IN /\ verdict' = [kind |-> "comment", category |-> result.category,
                         analysis |-> result.analysis,
                         text |-> ResponseText(apiKey, out)]
          /\ inserted' = NoInsert
          /\ ResponseSwitch(result)

\* generateSupportiveMessage resolves and the warning toast is raised (249-265)
SupportMessageShown(out) ==
    /\ pc = "support_msg"
    /\ pc' = "warned"
    /\ sub' = [sub EXCEPT !.message = generateSupportiveMessage(apiKey, out)]
    /\ notice' = "support_warning"
    /\ verdict' = NoVerdict /\ done' = NoneDone /\ inserted' = NoInsert
    /\ UNCHANGED <<dbVars, envVars, formVars, viewVars, loadVars, showCrisisModal,
                   isSubmitting>>

\* action 'Post Anyway' of the toast, line 260
PostAnyway ==
    /\ pc = "warned"
    /\ verdict' = NoVerdict /\ inserted' = NoInsert
    /\ proceedWithPosting([category |-> sub.category, analysis |-> sub.analysis], TRUE)

\* onDismiss of the toast, line 262
DismissWarning ==
    /\ pc = "warned"
    /\ notice' = "none" /\ verdict' = NoVerdict /\ inserted' = NoInsert
    /\ Finish("comment", sub.post, FALSE)
    /\ UNCHANGED <<dbVars, envVars, formVars, viewVars, loadVars, showCrisisModal>>

\* onAutoClose of the toast after 10 s, line 263
AutoCloseWarning ==
    /\ pc = "warned"
    /\ notice' = "none" /\ verdict' = NoVerdict /\ inserted' = NoInsert
    /\ Finish("comment", sub.post, FALSE)
    /\ UNCHANGED <<dbVars, envVars, formVars, viewVars, loadVars, showCrisisModal>>

\* the insert into comments answers (lines 191-200), then loadComments is called
CommentInserted(ok) ==
    /\ pc = "ins_comment"
    /\ verdict' = NoVerdict
    /\ IF ok
       THEN /\ dbComments' = Append(dbComments,
                                    [post_id |-> sub.post,
                                     parent_comment_id |-> sub.replyTo])
            /\ inserted' = [table |-> "comments", content |-> sub.content,
                            ai_analysis |-> sub.analysis, confirmed |-> sub.confirmed]
            /\ pc' = "reload"
            /\ notice' = "none" /\ done' = NoneDone
            /\ UNCHANGED <<isSubmitting, sub>>
       ELSE /\ notice' = "response_failed"
            /\ inserted' = NoInsert
            /\ Finish("comment", sub.post, TRUE)
            /\ UNCHANGED dbComments
    /\ UNCHANGED <<dbPosts, envVars, formVars, viewVars, loadVars, showCrisisModal>>

\* loadComments of line 204 resolves, then the count update is sent
CommentsReloaded(ok) ==
    /\ pc = "reload"
    /\ LET r == loadComments(dbComments, sub.post, ok, comments)
       IN /\ comments' = r.tree
          /\ loaded' = IF ok THEN r.data ELSE loaded
          /\ sub' = [sub EXCEPT !.count = Len(r.data), !.failed = ~ok]
    /\ pc' = "update"
    /\ Quiet
    /\ UNCHANGED <<dbVars, envVars, formVars, posts, selectedPost, postFilter, loadVars,
                   showCrisisModal, isSubmitting>>

\* an update of comment_count that adds the count to the stored one
UpdateCommentCountAdds(tbl, id, n, uid, ok) ==
    IF ok /\ tbl[id].user_id = uid
    THEN [tbl EXCEPT ![id].comment_count = @ + n]
    ELSE tbl

\* update({comment_count}).eq('id', id) under the policy
\* "Allow users to update their own content": USING (auth.uid() = user_id)
UpdateCommentCount(tbl, id, n, uid, ok) ==
    IF ok /\ tbl[id].user_id = uid
    THEN [tbl EXCEPT ![id].comment_count = n]
    ELSE tbl

\* the update of line 208 answers; lines 210-226
CountUpdated(ok) ==
    /\ pc = "update"
    /\ dbPosts' = UpdateCommentCount(dbPosts, sub.post, sub.count, user, ok)
    /\ selectedPost' = IF selectedPost.id # NoPost
                       THEN [selectedPost EXCEPT !.comment_count = sub.count]
                       ELSE selectedPost
    /\ posts' = [i \in 1..Len(posts) |->
                   IF posts[i].id = sub.post
                   THEN [posts[i] EXCEPT !.comment_count = sub.count]
                   ELSE posts[i]]
    \* selectedPost is a new object: the effect of line 145 runs again
    /\ pendingComments' = IF selectedPost.id # NoPost
                          THEN pendingComments \cup {selectedPost.id}
                          ELSE pendingComments
    /\ notice' = "response_posted"
    /\ verdict' = NoVerdict /\ inserted' = NoInsert
    /\ commentContent' = <<>>
    /\ replyTo' = NoComment
    /\ Finish("comment", sub.post, sub.failed \/ ~ok)
    /\ UNCHANGED <<dbComments, envVars, comments, loaded, postFilter, pendingPosts, postContent,
                   showCreateForm, showCrisisModal>>

\* Another session runs the insert of lines 191-198 on post p at any moment,
\* also while a submission of this session is in flight.
ConcurrentInsert(p) ==
    /\ p \in 1..Len(dbPosts)
    /\ Len(dbComments) < MaxComments
    /\ dbComments' = Append(dbComments, [post_id |-> p, parent_comment_id |-> NoComment])
    /\ Quiet
    /\ UNCHANGED <<dbPosts, envVars, formVars, viewVars, loadVars, isSubmitting,
                   showCrisisModal, pc, sub>>

\* Another session, of user Other, runs the update of line 208 on post p at any
\* moment, with the length n of the list its loadComments returned earlier: the
\* number of rows the post had at some moment after that session's insert, or
\* 0 when its re-read failed.
ConcurrentCountWrite(p, n) ==
    /\ p \in 1..Len(dbPosts)
    /\ n \in 0..RowCount(dbComments, p)
    /\ dbPosts' = UpdateCommentCount(dbPosts, p, n, Other, TRUE)
    /\ dbPosts' # dbPosts
    /\ Quiet
    /\ UNCHANGED <<dbComments, envVars, formVars, viewVars, loadVars, isSubmitting,
                   showCrisisModal, pc, sub>>

\* Another session (another browser) runs the insert of lines 191-198 on post p
\* while no submission of this session is in flight.
OtherSessionInserts(p) ==
    /\ pc = "idle"
    /\ p \in 1..Len(dbPosts)
    /\ Len(dbComments) < MaxComments
    /\ dbComments' = Append(dbComments, [post_id |-> p, parent_comment_id |-> NoComment])
    /\ Quiet
    /\ UNCHANGED <<dbPosts, envVars, formVars, viewVars, loadVars, isSubmitting,
                   showCrisisModal, pc, sub>>

\* Another session, of user Other, runs the update of line 208 on post p with
\* the count n it read after its own insert (other inserts may have followed).
OtherSessionWritesCount(p, n) ==
    /\ pc = "idle"
    /\ p \in 1..Len(dbPosts)
    /\ n \in 1..RowCount(dbComments, p)
    /\ dbPosts' = UpdateCommentCount(dbPosts, p, n, Other, TRUE)
    /\ dbPosts' # dbPosts
    /\ Quiet
    /\ UNCHANGED <<dbComments, envVars, formVars, viewVars, loadVars, isSubmitting,
                   showCrisisModal, pc, sub>>

\* Share button, lines 588-591
ShareEnabled == ~(isSubmitting \/ Trim(postContent) = <<>>)

\* handleCreatePost sending the insert without awaiting moderateContent
PostStartedUnmoderated ==
    /\ isSubmitting' = TRUE
    /\ pc' = "ins_post"
    /\ sub' = [IdleSub EXCEPT !.content = postContent, !.posts = posts]
    /\ Quiet
    /\ UNCHANGED <<dbVars, envVars, formVars, viewVars, loadVars, showCrisisModal>>

\* lines 156-158: setIsSubmitting(true); await moderateContent(...)
PostStarted ==
    /\ isSubmitting' = TRUE
    /\ pc' = "mod_post"
    /\ sub' = [IdleSub EXCEPT !.content = postContent, !.posts = posts,
                              !.evaluated = postContent]
    /\ Quiet
    /\ UNCHANGED <<dbVars, envVars, formVars, viewVars, loadVars, showCrisisModal>>

\* the body of handleCreatePost up to the await (lines 154-158)
PostSubmitted ==
    IF Trim(postContent) = <<>>
    THEN UNCHANGED vars
    ELSE PostStarted

\* handleCreatePost, run by the submit event of the form (Share button)
handleCreatePost ==
    /\ ~Detail /\ Interactive /\ showCreateForm /\ ShareEnabled
    /\ pc = "idle"
    /\ Len(dbPosts) < MaxPosts
    /\ PostSubmitted

\* handleCreatePost called whatever the state of the Share button
CallCreatePost ==
    /\ ~Detail /\ showCreateForm
    /\ pc = "idle"
    /\ Len(dbPosts) < MaxPosts
    /\ PostSubmitted

\* lines 160-168: only urgent_risk stops a post; anything else is inserted
PostSwitch(result) ==
    IF result.category = "urgent_risk"
    THEN UrgentRiskCase("post")
    ELSE /\ pc' = "ins_post"
         /\ sub' = [sub EXCEPT !.category = result.category, !.analysis = result.analysis]
         /\ notice' = "none" /\ done' = NoneDone
         /\ UNCHANGED <<dbVars, envVars, formVars, viewVars, loadVars, showCrisisModal,
                        isSubmitting>>

\* moderateContent resolves in handleCreatePost
PostModerated(out) ==
    /\ pc = "mod_post"
    /\ LET result == moderateContent(apiKey, out)
       IN /\ verdict' = [kind |-> "post", category |-> result.category,
                         analysis |-> result.analysis,
                         text |-> ResponseText(apiKey, out)]
          /\ inserted' = NoInsert
          /\ PostSwitch(result)

\* the insert into posts answers (lines 168-180); the policy
\* "Allow insert for authenticated users" rejects a session without user
PostInserted(ok) ==
    /\ pc = "ins_post"
    /\ verdict' = NoVerdict
    /\ IF ok /\ user # NoUser
       THEN /\ dbPosts' = Append(dbPosts, [user_id |-> user, comment_count |-> 0])
            /\ inserted' = [table |-> "posts", content |-> sub.content,
                            ai_analysis |-> sub.analysis, confirmed |-> sub.confirmed]
            /\ posts' = <<[id |-> Len(dbPosts) + 1, comment_count |-> 0]>> \o sub.posts
            /\ postContent' = <<>>
            /\ showCreateForm' = FALSE
            /\ notice' = "post_shared"
            /\ Finish("post", Len(dbPosts) + 1, FALSE)
       ELSE /\ notice' = "post_failed"
            /\ inserted' = NoInsert
            /\ Finish("post", NoPost, TRUE)
            /\ UNCHANGED <<dbPosts, posts, postContent, showCreateForm>>
    /\ UNCHANGED <<dbComments, envVars, selectedPost, comments, loaded, postFilter, loadVars,
                   replyTo, commentContent, showCrisisModal>>

\* ------------------------------------------------------------------- Next
\* the list, a post's detail view, the loads of the effect
Navigate ==
    \/ \E i \in 1..MaxPosts : SelectPost(i)
    \/ BackToCommunity
    \/ \E f \in {"all", "yours"}, ok \in BOOLEAN : LoadPostsDone(f, ok)
    \/ \E p \in 1..MaxPosts, ok \in BOOLEAN : LoadCommentsDone(p, ok)

\* the reply banner
Reply(maxId) ==
    \/ \E c \in 1..maxId : handleReplyClick(c)
    \/ CancelReply

\* a comment submission, from typing to the count update
CommentPipeline ==
    \/ \E t \in CommentTexts : TypeComment(t)
    \/ handleCreateResponse
    \/ \E out \in ServiceOutcomes : CommentModerated(out)
    \/ \E out \in SupportOutcomes : SupportMessageShown(out)
    \/ PostAnyway
    \/ DismissWarning
    \/ AutoCloseWarning
    \/ \E ok \in BOOLEAN : CommentInserted(ok)
    \/ \E ok \in BOOLEAN : CommentsReloaded(ok)
    \/ \E ok \in BOOLEAN : CountUpdated(ok)
    \/ CloseCrisisModal

\* a post submission, from the form to the insert
PostPipeline ==
    \/ \E t \in Texts : TypePost(t)
    \/ ToggleCreateForm
    \/ \E f \in {"all", "yours"} : SetPostFilter(f)
    \/ handleCreatePost
    \/ \E out \in ServiceOutcomes : PostModerated(out)
    \/ \E ok \in BOOLEAN : PostInserted(ok)
    \/ CloseCrisisModal

\* Spec: a session that browses two existing posts and comments on them.
Next == Navigate \/ Reply(MaxComments) \/ CommentPipeline

Spec == Init /\ [][Next]_vars

\* SpecPost: a session that shares posts and opens them.
NextPost == Navigate \/ PostPipeline

SpecPost == InitPost /\ [][NextPost]_vars

\* SpecTree: a session that browses two posts whose comments were written
\* earlier, by this and other sessions.
NextTree == Navigate \/ Reply(MaxTreeComments)

SpecTree == InitTree /\ [][NextTree]_vars

\* SpecForms: a session that shares a post and comments, one form at a time
\* (isSubmitting is shared by the two forms).
NextForms ==
    \/ Navigate
    \/ CommentPipeline
    \/ \E t \in CommentTexts : TypePost(t)
    \/ ToggleCreateForm
    \/ handleCreatePost
    \/ \E out \in ServiceOutcomes : PostModerated(out)
    \/ \E ok \in BOOLEAN : PostInserted(ok)

SpecForms == InitPost /\ [][NextForms]_vars

\* SpecShared: the session of Spec, with other sessions commenting on the same
\* posts between its submissions.
NextShared ==
    \/ Navigate
    \/ CommentPipeline
    \/ \E p \in 1..MaxPosts : OtherSessionInserts(p)
    \/ \E p \in 1..MaxPosts, n \in 1..MaxComments : OtherSessionWritesCount(p, n)

SpecShared == Init /\ [][NextShared]_vars

\* SpecSupport: generateSupportiveMessage applied, by a handler suspended at
\* line 248, with the credential set or not and with every outcome of the
\* service; the session then goes on commenting.
InitSupport ==
    /\ dbPosts = <<OtherPost, OwnPost>>
    /\ dbComments = <<>>
    /\ user \in {Owner, NoUser}
    /\ apiKey \in BOOLEAN
    /\ posts = SelectPosts(dbPosts, "all", user)
    /\ selectedPost \in Range(posts)
    /\ comments = EmptyTree
    /\ loaded = <<>>
    /\ isSubmitting = TRUE
    /\ showCrisisModal = FALSE
    /\ replyTo = NoComment
    /\ commentContent = <<"a">>
    /\ postContent = <<>>
    /\ showCreateForm = FALSE
    /\ notice = "none"
    /\ verdict = NoVerdict
    /\ done = NoneDone
    /\ inserted = NoInsert
    /\ pc = "support_msg"
    /\ sub = [IdleSub EXCEPT !.post = selectedPost.id,
                             !.content = commentContent,
                             !.evaluated = commentContent,
                             !.category = "support_needed",
                             !.analysis = [kind |-> "parsed", category |-> "support_needed"]]
    /\ postFilter = "all"
    /\ pendingPosts = {}
    /\ pendingComments = {}

SpecSupport == InitSupport /\ [][CommentPipeline]_vars

\* SpecLive: a session that may share a post and then opens a post and
\* comments, where every awaited call settles (it answers or it fails) and the
\* warning toast closes by itself after its duration (line 257) unless the
\* user acts on it first.
NextLive ==
    \/ \E i \in 1..MaxPosts : SelectPost(i)
    \/ \E f \in {"all", "yours"}, ok \in BOOLEAN : LoadPostsDone(f, ok)
    \/ \E p \in 1..MaxPosts, ok \in BOOLEAN : LoadCommentsDone(p, ok)
    \/ CommentPipeline
    \/ \E t \in CommentTexts : TypePost(t)
    \/ ToggleCreateForm
    \/ handleCreatePost
    \/ \E out \in ServiceOutcomes : PostModerated(out)
    \/ \E ok \in BOOLEAN : PostInserted(ok)

Settles ==
    /\ WF_vars(\E out \in ServiceOutcomes : CommentModerated(out))
    /\ WF_vars(\E out \in ServiceOutcomes : PostModerated(out))
    /\ WF_vars(\E out \in SupportOutcomes : SupportMessageShown(out))
    /\ WF_vars(AutoCloseWarning)
    /\ WF_vars(\E ok \in BOOLEAN : CommentInserted(ok))
    /\ WF_vars(\E ok \in BOOLEAN : CommentsReloaded(ok))
    /\ WF_vars(\E ok \in BOOLEAN : CountUpdated(ok))
    /\ WF_vars(\E ok \in BOOLEAN : PostInserted(ok))

SpecLive == InitPost /\ [][NextLive]_vars /\ Settles

\* SpecSubmit: the two submit handlers called with any content in the form,
\* whatever the state of their buttons, up to their first await.
NextSubmit ==
    \/ Navigate
    \/ \E t \in Texts : TypeComment(t)
    \/ \E t \in Texts : TypePost(t)
    \/ ToggleCreateForm
    \/ CallCreateResponse
    \/ CallCreatePost

SpecSubmit == InitPost /\ [][NextSubmit]_vars

\* SpecRace: a session that opens one of the two posts and comments, while
\* other sessions insert comments and write counts between any two of its steps.
NextRace ==
    \/ \E i \in 1..MaxPosts : SelectPost(i)
    \/ \E f \in {"all", "yours"}, ok \in BOOLEAN : LoadPostsDone(f, ok)
    \/ \E p \in 1..MaxPosts, ok \in BOOLEAN : LoadCommentsDone(p, ok)
    \/ CommentPipeline
    \/ \E p \in 1..MaxPosts : ConcurrentInsert(p)
    \/ \E p \in 1..MaxPosts, n \in 0..MaxComments : ConcurrentCountWrite(p, n)

SpecRace == Init /\ [][NextRace]_vars

\* SpecTyping: the session of SpecLive without the fairness, where the user
\* also retypes either input at any time, a pending classification or warning
\* included (the textareas of lines 446 and 546 are never disabled).
NextTyping ==
    \/ NextLive
    \/ \E t \in Texts : TypeComment(t)
    \/ \E t \in Texts : TypePost(t)

SpecTyping == InitPost /\ [][NextTyping]_vars

TypeOK ==
    /\ isSubmitting \in BOOLEAN
    /\ pc \in {"idle", "mod_comment", "support_msg", "warned", "ins_comment", "reload",
               "update", "mod_post", "ins_post"}
    /\ Len(dbPosts) <= MaxPosts
    /\ Len(loaded) <= Len(dbComments)

\* ------------------------------------------------------------------ claims
\* the step in which moderateContent returned the category cat to the handler
\* suspended at p
Returned(p, cat) == pc = p /\ verdict'.category = cat

\* the steps that leave both tables and the in-memory posts as they are
NothingWritten ==
    /\ dbComments' = dbComments
    /\ dbPosts' = dbPosts
    /\ inserted' = NoInsert
    /\ posts' = posts
    /\ selectedPost' = selectedPost

\* C1: after a comment submission that ends with the success notice and had
\* no remote failure, the comment_count stored on the post row equals the
\* number of comment rows of that post, whoever owns the post.
C1_CountEqualsRows ==
    (done.kind = "comment" /\ notice = "response_posted" /\ ~done.failed)
        => dbPosts[done.post].comment_count = RowCount(dbComments, done.post)

\* C2: a comment whose verdict is harmful_instruction is rejected: the
\* rejection notice is raised, no row is inserted, the stored and in-memory
\* comment_count stay as they are, the content is dropped and the submit
\* control is enabled again.
C2_HarmfulCommentRejected ==
    [][Returned("mod_comment", "harmful_instruction")
         => /\ notice' = "harmful_rejected"
            /\ NothingWritten
            /\ isSubmitting' = FALSE
            /\ pc' = "idle" /\ sub' = IdleSub]_vars

C2_Witness ==
    /\ verdict.kind = "comment" /\ verdict.category = "harmful_instruction"
    /\ notice = "harmful_rejected"
    /\ ~isSubmitting

\* C3: no row whose verdict is harmful_instruction is inserted into posts.
C3_HarmfulPostRejected ==
    ~(inserted.table = "posts" /\ inserted.ai_analysis.category = "harmful_instruction")

\* C4: a row whose verdict is support_needed is inserted into posts only
\* after the user confirmed 'post anyway'.
C4_SupportPostNeedsConfirm ==
    (inserted.table = "posts" /\ inserted.ai_analysis.category = "support_needed")
        => inserted.confirmed

\* C5: a comment whose verdict is support_needed is inserted only after 'Post
\* Anyway' was pressed on the warning; when the warning ends otherwise no row
\* is inserted, comment_count stays as it is and the submit control is
\* enabled again.
C5_SupportCommentNeedsConfirm ==
    [][/\ (inserted'.table = "comments" /\ inserted'.ai_analysis.category = "support_needed")
            => inserted'.confirmed
       /\ (pc = "mod_comment" /\ verdict'.category = "support_needed")
            => NothingWritten /\ pc' = "support_msg"
       /\ (pc = "support_msg" /\ pc' # pc) => NothingWritten /\ pc' = "warned"
       /\ (pc = "warned" /\ pc' = "idle")
            => NothingWritten /\ isSubmitting' = FALSE /\ sub' = IdleSub]_vars

C5_Witness ==
    /\ inserted.table = "comments"
    /\ inserted.ai_analysis.category = "support_needed"
    /\ inserted.confirmed

\* C6: a post or a comment whose verdict is urgent_risk is never inserted:
\* the crisis modal is shown, nothing is written to the database, the content
\* is dropped and the submit control is enabled again.
C6_UrgentRiskBlocked ==
    [][(Returned("mod_comment", "urgent_risk") \/ Returned("mod_post", "urgent_risk"))
         => /\ showCrisisModal' = TRUE
            /\ NothingWritten
            /\ isSubmitting' = FALSE
            /\ pc' = "idle" /\ sub' = IdleSub]_vars

C6_Witness ==
    /\ verdict.kind = "comment" /\ verdict.category = "urgent_risk"
    /\ showCrisisModal
    /\ ~isSubmitting
    /\ Len(dbPosts) = 2

\* C7: when classification fails (the service throws, the credential is
\* missing, the answer does not parse) the handler goes on as with a safe
\* verdict: no notice about the classification, the insert of the submitted
\* content is sent, and the row is inserted unless the insert itself fails.
ClassificationFailed(a) == a.kind \in {"error", "empty"}

C7_FailOpen ==
    [][/\ (pc \in {"mod_comment", "mod_post"} /\ ClassificationFailed(verdict'.analysis))
            => /\ verdict'.category = "safe"
               /\ showCrisisModal' = showCrisisModal
               /\ IF pc = "mod_comment" /\ user = NoUser
                  THEN notice' = "response_failed" /\ pc' = "idle"
                  ELSE /\ notice' = "none"
                       /\ pc' = IF pc = "mod_comment" THEN "ins_comment" ELSE "ins_post"
                       /\ sub'.content = sub.content
                       /\ sub'.analysis = verdict'.analysis
                       /\ isSubmitting'
       /\ (pc \in {"ins_comment", "ins_post"} /\ ClassificationFailed(sub.analysis) /\ pc' # pc)
            => \/ /\ inserted'.table = IF pc = "ins_comment" THEN "comments" ELSE "posts"
                  /\ inserted'.content = sub.content
                  /\ inserted'.ai_analysis = sub.analysis
               \/ notice' \in {"response_failed", "post_failed"}]_vars

C7_Witness ==
    /\ inserted.table = "comments"
    /\ inserted.ai_analysis.kind = "error"
    /\ Len(dbPosts) = 2

\* C8: the tree loadComments builds holds every comment of the loaded list
\* exactly once: counted from the top level through replies it has as many
\* nodes as the list has comments, and they are the list's comments.
LoadedIds == {loaded[i].id : i \in 1..Len(loaded)}

C8_TreeHoldsEveryComment ==
    /\ NodeCount(comments) = Len(loaded)
    /\ Rendered(comments) = LoadedIds

C8_Witness ==
    /\ Len(loaded) = 3
    /\ NodeCount(comments) = 3
    /\ \E a \in Range(comments.top) : \E b \in Range(comments.replies[a]) :
          comments.replies[b] # <<>>

\* C9: in the tree loadComments builds, a comment whose parent is in the list
\* is in the replies of that parent (and not at the top level), and a comment
\* without parent, or whose parent is not in the list, is at the top level.
C9_RepliesUnderParent ==
    \A i \in 1..Len(loaded) :
        LET c == loaded[i]
        IN IF c.parent_comment_id # NoComment /\ c.parent_comment_id \in LoadedIds
           THEN /\ c.id \in Range(comments.replies[c.parent_comment_id])
                /\ c.id \notin Range(comments.top)
           ELSE c.id \in Range(comments.top)

C9_Witness ==
    /\ \E i \in 1..Len(loaded) :
          /\ loaded[i].parent_comment_id \in LoadedIds
          /\ loaded[i].id \in Range(comments.replies[loaded[i].parent_comment_id])
    /\ \E i \in 1..Len(loaded) :
          /\ loaded[i].parent_comment_id # NoComment
          /\ loaded[i].parent_comment_id \notin LoadedIds
          /\ loaded[i].id \in Range(comments.top)

\* C10: every comment row with a parent_comment_id references a comment of
\* the same post.
C10_ParentInSamePost ==
    \A i \in 1..Len(dbComments) :
        dbComments[i].parent_comment_id # NoComment
            => dbComments[dbComments[i].parent_comment_id].post_id = dbComments[i].post_id

\* C11: the total the detail view displays (totalCommentCount) equals the
\* number of comments of the flat list the tree was built from, whatever the
\* shape and the depth of the tree.
C11_DisplayedTotalIsListLength ==
    totalCommentCount(comments) = Len(loaded)

\* C12: while a submission of a post or of a comment is in flight (from the
\* start of classification to its end, the pending warning and the posting
\* after 'Post Anyway' included) isSubmitting is true and both submit controls
\* are disabled, so no second submission can start.
C12_OneSubmissionInFlight ==
    pc # "idle" => isSubmitting /\ ~SendEnabled /\ ~ShareEnabled

C12_Witness ==
    /\ pc = "ins_comment" /\ sub.confirmed
    /\ isSubmitting
    /\ Trim(commentContent) # <<>>

\* C13: while the content of a form is empty or white space only, no step,
\* the call of its submit handler included, starts a classification, sets
\* isSubmitting or writes to the database.
C13_EmptySubmissionIsNoOp ==
    [][/\ (Detail /\ Trim(commentContent) = <<>> /\ pc = "idle")
            => (pc' = "idle" /\ isSubmitting' = isSubmitting /\ UNCHANGED dbVars)
       /\ (~Detail /\ Trim(postContent) = <<>> /\ pc = "idle")
            => (pc' = "idle" /\ isSubmitting' = isSubmitting /\ UNCHANGED dbVars)]_vars

C13_Witness ==
    /\ Detail /\ commentContent = <<" ">>
    /\ pc = "idle" /\ ~isSubmitting
    /\ postContent = <<"a">>

\* C14: when the insert of a comment is rejected, or nobody is signed in,
\* proceedWithPosting raises the generic failure notice, writes neither a row
\* nor a comment_count, leaves posts, selectedPost, comments, the content of
\* the form and replyTo as they are, sets isSubmitting to false and sends
\* nothing again.
C14_CommentFailureChangesNothing ==
    [][/\ (pc = "ins_comment" /\ pc' # pc /\ pc' # "reload") => notice' = "response_failed"
       /\ (pc = "mod_comment" /\ verdict'.category = "safe" /\ user = NoUser)
            => notice' = "response_failed"
       /\ notice' = "response_failed"
            => /\ UNCHANGED dbVars
               /\ UNCHANGED <<posts, selectedPost, comments, commentContent, replyTo>>
               /\ isSubmitting' = FALSE
               /\ pc' = "idle" /\ sub' = IdleSub
               /\ done' = [kind |-> "comment", post |-> sub.post, failed |-> TRUE]]_vars

C14_Witness ==
    /\ notice = "response_failed"
    /\ user # NoUser
    /\ replyTo # NoComment /\ commentContent # <<>>
    /\ ~isSubmitting

\* C15: when a submission ends Blocked (urgent_risk) or Rejected
\* (harmful_instruction), the content input of its form is cleared and the
\* submit control is enabled again, without any further action of the user.
C15_BlockedOrRejectedClearsInput ==
    (done.kind # "none" /\ verdict.category \in {"urgent_risk", "harmful_instruction"})
        => /\ ~isSubmitting
           /\ (done.kind = "comment" => commentContent = <<>>)
           /\ (done.kind = "post" => postContent = <<>>)

\* C16: every submission of a post or of a comment, whatever its verdict or
\* its failure, eventually leaves the form idle with isSubmitting false.
C16_SubmissionEnds ==
    (isSubmitting \/ pc # "idle") ~> (pc = "idle" /\ ~isSubmitting)

C16_Witness ==
    /\ done.kind = "comment" /\ done.failed
    /\ pc = "idle" /\ ~isSubmitting
    /\ Len(dbPosts) = 2

C18_VerdictCategoryIsKnown ==
    verdict.kind # "none" => verdict.category \in Categories

\* C19: within a submission a row is inserted only after its verdict is
\* known, the comments are re-read only once the insert has answered, and
\* comment_count is written only once the re-read has answered, with the
\* count it returned.
C19_ClassifyInsertRereadCount ==
    [][/\ dbComments' # dbComments
            => pc = "ins_comment" /\ sub.category # "none" /\ pc' = "reload"
       /\ Len(dbPosts') # Len(dbPosts)
            => pc = "ins_post" /\ sub.category # "none"
       /\ (pc' = "reload" /\ pc # "reload") => dbComments' # dbComments
       /\ (pc = "reload" /\ pc' # pc) => pc' = "update" /\ UNCHANGED dbVars
       /\ (pc' = "update" /\ pc # "update") => pc = "reload"
       /\ (Len(dbPosts') = Len(dbPosts) /\ dbPosts' # dbPosts)
            => pc = "update" /\ dbPosts'[sub.post].comment_count = sub.count]_vars

C19_Witness ==
    /\ done.kind = "comment" /\ notice = "response_posted"
    /\ dbPosts[done.post].comment_count = 1
    /\ Len(dbComments) = 1

\* C20: a comment submission that ends with the success notice, without a
\* remote failure and without another session writing during it, leaves the
\* stored comment_count of its post equal to the number of comment rows of
\* the post, also when other sessions had left an undercount before.
C20_NextSubmissionRepairsCount ==
    [][(/\ pc = "update" /\ notice' = "response_posted" /\ ~done'.failed
        /\ dbPosts[sub.post].comment_count < RowCount(dbComments, sub.post) - 1)
          => dbPosts'[sub.post].comment_count = RowCount(dbComments', sub.post)]_vars

\* C21: every persisted post or comment carries the content that moderateContent
\* was called with in that submission and the analysis it returned; no step
\* after the classification (Post Anyway included) classifies again.
C21_PersistedIsWhatWasClassified ==
    [][/\ inserted'.table # "none" =>
            /\ inserted'.content = sub.evaluated
            /\ inserted'.ai_analysis = sub.analysis
       /\ pc \notin {"idle", "mod_comment", "mod_post"} => verdict'.kind = "none"]_vars

\* a confirmed comment is persisted while the input holds another, non-empty text
C21_Witness ==
    /\ inserted.table = "comments"
    /\ inserted.confirmed
    /\ Trim(commentContent) # <<>>
    /\ commentContent # inserted.content

\* the comments reached from comment i by following parent_comment_id, at most
\* n times
RECURSIVE Ancestors(_, _, _)
Ancestors(tbl, i, n) ==
    IF n = 0 \/ i \notin DOMAIN tbl THEN {}
    ELSE LET p == tbl[i].parent_comment_id
         IN IF p = NoComment THEN {} ELSE {p} \cup Ancestors(tbl, p, n - 1)

\* C22: the parent_comment_id references form a forest: every parent is a
\* persisted comment and no comment is its own ancestor.
C22_ParentsFormForest ==
    \A i \in DOMAIN dbComments :
        /\ Ancestors(dbComments, i, Len(dbComments)) \subseteq DOMAIN dbComments
        /\ i \notin Ancestors(dbComments, i, Len(dbComments))

\* a reply has just been inserted under a comment persisted before it
C22_Witness ==
    /\ inserted.table = "comments"
    /\ Len(dbComments) = 2
    /\ dbComments[2].parent_comment_id = 1

\* the first balanced {...} of a response text: from its first "{" to the
\* first "}" after it (<<>> when there is none)
FirstBalancedObject(t) ==
    LET open == IndexOf(t, "{") + 1
    IN IF open = 0 \/ ~\E j \in (open + 1)..Len(t) : t[j] = "}" THEN <<>>
       ELSE SubSeq(t, open,
                   CHOOSE j \in (open + 1)..Len(t) :
                       t[j] = "}" /\ \A k \in (open + 1)..(j - 1) : t[k] # "}")

\* C23: when the response holds a well-formed verdict object, with prose
\* around it that may hold further braces after the object, moderateContent
\* returns the category of that first balanced object, not the fallback safe.
C23_FirstBalancedObjectIsParsed ==
    LET obj == FirstBalancedObject(verdict.text)
    IN (verdict.kind # "none" /\ Len(obj) = 3 /\ obj[2] \in Categories)
          => /\ verdict.category = obj[2]
             /\ verdict.analysis.kind = "parsed"

\* C24: whenever a post's detail view is shown, every comment of the in-memory
\* tree belongs to the selected post.
C24_TreeBelongsToSelectedPost ==
    Detail => \A i \in 1..Len(loaded) : loaded[i].post_id = selectedPost.id

\* C25: the in-memory update that ends a comment submission on post P changes
\* the comment_count of P only: the selected post and every post of the list
\* keep their comment_count when they are not P.
C25_CountUpdateChangesOnlyItsPost ==
    [][(pc = "update" /\ pc' = "idle") =>
          /\ selectedPost.id # sub.post =>
                selectedPost'.comment_count = selectedPost.comment_count
          /\ \A i \in 1..Len(posts) :
                posts[i].id # sub.post => posts'[i].comment_count = posts[i].comment_count]_vars

\* C26: the count that proceedWithPosting sends to the post after a successful
\* insert is at least 1, also when the re-read of the comments failed.
C26_WrittenCountIsPositive ==
    pc = "update" => sub.count >= 1

\* C27: with inserts only, the comment_count stored on a post never exceeds
\* the number of comment rows of that post, whatever the interleaving of the
\* submissions of this and of other sessions.
C27_StoredCountAtMostRows ==
    \A p \in 1..Len(dbPosts) : dbPosts[p].comment_count <= RowCount(dbComments, p)

\* this session's update has just stored a count that another session's insert,
\* made after the re-read, is missing from
C27_Witness ==
    /\ done.kind = "comment" /\ ~done.failed
    /\ dbPosts[done.post].comment_count = 1
    /\ RowCount(dbComments, done.post) = 2

\* C28: a comment submission that passed validation ends with an outcome the
\* user sees: the success notice, the crisis modal, the rejection notice, the
\* failure notice, or the support warning that was on screen until then.
C28_SubmissionEndsVisibly ==
    [][(pc # "idle" /\ pc' = "idle" /\ sub.post # NoPost /\ pc # "mod_post" /\ pc # "ins_post") =>
          \/ notice' \in {"response_posted", "harmful_rejected", "response_failed"}
          \/ showCrisisModal' /\ ~showCrisisModal
          \/ pc = "warned"]_vars

\* C29: when a comment submission ends with the success notice, the in-memory
\* comment_count of its post, in the detail view and in the list, equals the
\* comment_count stored on the post row.
C29_MemoryCountIsStoredCount ==
    notice = "response_posted" =>
        /\ selectedPost.id = done.post =>
              selectedPost.comment_count = dbPosts[done.post].comment_count
        /\ \A i \in 1..Len(posts) :
              posts[i].id = done.post =>
                  posts[i].comment_count = dbPosts[done.post].comment_count

\* C30: after a successful post creation the in-memory list is the inserted
\* post followed by the list as it was most recently loaded, not by the list
\* captured when the submission started.
C30_NewPostPrependedToLatestList ==
    [][(pc = "ins_post" /\ notice' = "post_shared") =>
          posts' = <<[id |-> Len(dbPosts'), comment_count |-> 0]>> \o posts]_vars

====
